---- MODULE Spec2Model ----
(***************************************************************************)
(* A model of the user-attribute table pipeline of yelp_expert_finding:    *)
(*   src/data/data_utilities.py  the attribute I/O layer                    *)
(*   src/utilities.py            the record transformation layer            *)
(*                                                                         *)
(* Text is a sequence of one-character strings, a file is a text, and the  *)
(* file system maps a path to a file.  Records live either by value (the   *)
(* join never mutates) or in a heap of objects (normalize_users mutates    *)
(* its argument in place).                                                 *)
(***************************************************************************)
EXTENDS Integers, Sequences, FiniteSets, TLC

VARIABLES
    fs,              \* the file system: path -> [exists, text]
    written,         \* history: the last write call made on each file name
    heap,            \* record objects: reference -> dictionary
    users,           \* the list of references handed to a transformation
    dictionaries_1,  \* first argument of join_dictionaries (by value)
    dictionaries_2,  \* second argument of join_dictionaries (by value)
    call,            \* the last call: its name and arguments
    result           \* what the last call returned or raised

vars == <<fs, written, heap, users, dictionaries_1, dictionaries_2, call, result>>

(***************************************************************************)
(* Bounds of the model.                                                    *)
(***************************************************************************)
MaxEntries == 2     \* entries of a single-attribute mapping
MaxRows == 2        \* records handed to _write_multiple_user_attributes
MaxJoin == 2        \* records in each argument of join_dictionaries
MaxUsers == 3       \* objects handed to make_attribute_boolean and normalize_users
MaxSampled == 4     \* objects handed to stratified_boolean_sample

(***************************************************************************)
(* Generic helpers.                                                        *)
(***************************************************************************)
Range(s) == {s[i] : i \in DOMAIN s}

\* Every ordering of a finite set, as a sequence without repetition: the
\* orders in which a Python 2 dict may hand out its entries.
Orderings(S) ==
    {s \in [1..Cardinality(S) -> S] : \A i, j \in 1..Cardinality(S) : i # j => s[i] # s[j]}

\* Sequences over S of length 0..n.
SeqUpTo(S, n) == UNION {[1..k -> S] : k \in 0..n}

NoValue == <<>>
Returned(v) == [err |-> "none", val |-> v]
Raised(e) == [err |-> e, val |-> NoValue]

(***************************************************************************)
(* Text: str(), ' '.join(), str.split() and iteration over a file's lines. *)
(***************************************************************************)
Whitespace == {" ", "\n", "\t"}
DigitChars == <<"0", "1", "2", "3", "4", "5", "6", "7", "8", "9">>

RECURSIVE NatStr(_)
NatStr(n) ==
    IF n < 10 THEN <<DigitChars[n + 1]>>
    ELSE NatStr(n \div 10) \o <<DigitChars[(n % 10) + 1]>>

IntStr(n) == IF n < 0 THEN <<"-">> \o NatStr(-n) ELSE NatStr(n)

\* A value held in a record before it is written: a Python int or a str.
IntV(n) == [t |-> "int", n |-> n, s |-> <<>>]
StrV(s) == [t |-> "str", n |-> 0, s |-> s]

\* str(value)
str(v) == IF v.t = "int" THEN IntStr(v.n) ELSE v.s

\* sep.join(tokens)
RECURSIVE join(_, _)
join(sep, tokens) ==
    IF tokens = <<>> THEN <<>>
    ELSE IF Len(tokens) = 1 THEN tokens[1]
    ELSE tokens[1] \o sep \o join(sep, Tail(tokens))

\* text.split(): the maximal runs of non-whitespace characters.
RECURSIVE SplitFrom(_, _, _, _)
SplitFrom(text, i, token, tokens) ==
    IF i > Len(text) THEN (IF token = <<>> THEN tokens ELSE Append(tokens, token))
    ELSE IF text[i] \in Whitespace
         THEN SplitFrom(text, i + 1, <<>>, IF token = <<>> THEN tokens ELSE Append(tokens, token))
         ELSE SplitFrom(text, i + 1, Append(token, text[i]), tokens)

split(text) == SplitFrom(text, 1, <<>>, <<>>)

\* `for line in file`: the text cut after every newline, newlines kept.
RECURSIVE LinesFrom(_, _, _, _)
LinesFrom(text, i, line, lines) ==
    IF i > Len(text) THEN (IF line = <<>> THEN lines ELSE Append(lines, line))
    ELSE IF text[i] = "\n"
         THEN LinesFrom(text, i + 1, <<>>, Append(lines, Append(line, "\n")))
         ELSE LinesFrom(text, i + 1, Append(line, text[i]), lines)

FileLines(text) == LinesFrom(text, 1, <<>>, <<>>)

\* The concatenation of a sequence of texts.
RECURSIVE Concat(_)
Concat(texts) == IF texts = <<>> THEN <<>> ELSE texts[1] \o Concat(Tail(texts))

(***************************************************************************)
(* The file system.                                                        *)
(***************************************************************************)
FileNames == {"f"}
Directories == {"raw_data/", "processed_data/"}

raw_data_absolute_path(relative_path) == <<"raw_data/", relative_path>>
processed_data_absolute_path(relative_path) == <<"processed_data/", relative_path>>

Paths == Directories \X FileNames
NoFile == [exists |-> FALSE, text |-> <<>>]
File(text) == [exists |-> TRUE, text |-> text]

NeverWritten == [op |-> "none", arg |-> NoValue, attributes |-> <<>>, ok |-> FALSE]
NoCall == [op |-> "none"]

(***************************************************************************)
(* Single-attribute files.                                                 *)
(***************************************************************************)
\* A write that forgets the line terminator.
SingleLineUnterminated(user_ID, attribute) == user_ID \o <<" ">> \o str(attribute)

\* One line of _write_single_user_attribute.
SingleLine(user_ID, attribute) == user_ID \o <<" ">> \o str(attribute) \o <<"\n">>

\* The text _write_single_user_attribute writes when iteritems() hands out
\* the entries in the order `order`.
SingleText(attribute_for_user, order) ==
    Concat([i \in DOMAIN order |-> SingleLine(order[i], attribute_for_user[order[i]])])

\* The loop of _read_single_user_attribute over the lines from `i` on.
RECURSIVE ReadSingleFrom(_, _, _)
ReadSingleFrom(lines, i, attribute_for_user) ==
    IF i > Len(lines) THEN Returned(attribute_for_user)
    ELSE LET tokens == split(lines[i])
         IN  IF Len(tokens) # 2 THEN Raised("ValueError")
             ELSE ReadSingleFrom(lines, i + 1,
                      [id \in DOMAIN attribute_for_user \cup {tokens[1]} |->
                          IF id = tokens[1] THEN tokens[2] ELSE attribute_for_user[id]])

read_single_user_attribute(files, input_file_name) ==
    LET file == files[processed_data_absolute_path(input_file_name)]
    IN  IF ~file.exists THEN Raised("IOError")
        ELSE ReadSingleFrom(FileLines(file.text), 1, <<>>)

\* Inputs.
UserIDs == {<<>>, <<"u", "1">>, <<"u", "2">>}
SingleValues == {IntV(12), IntV(-3), StrV(<<>>), StrV(<<"x", " ", "y">>)}
SingleMappings ==
    UNION {[ids -> SingleValues] : ids \in {s \in SUBSET UserIDs : Cardinality(s) <= MaxEntries}}
\* Files found in processed_data/ before any call: none, a well-formed
\* one, one with a three-token line.
InitialSingleFiles ==
    {NoFile,
     File(<<"u", "1", " ", "7", "\n">>),
     File(<<"u", "1", " ", "7", " ", "9", "\n">>)}

WriteSingle ==
    \E attribute_for_user \in SingleMappings, output_file_name \in FileNames :
      \E order \in Orderings(DOMAIN attribute_for_user) :
        /\ fs' = [fs EXCEPT ![processed_data_absolute_path(output_file_name)] =
                      File(SingleText(attribute_for_user, order))]
        /\ written' = [written EXCEPT ![output_file_name] =
                      [op |-> "write_single", arg |-> attribute_for_user,
                       attributes |-> <<>>, ok |-> TRUE]]
        /\ call' = [op |-> "write_single", file |-> output_file_name]
        /\ result' = Returned(NoValue)
        /\ UNCHANGED <<heap, users, dictionaries_1, dictionaries_2>>

ReadSingle ==
    \E input_file_name \in FileNames :
        /\ call' = [op |-> "read_single", file |-> input_file_name]
        /\ result' = read_single_user_attribute(fs, input_file_name)
        /\ UNCHANGED <<fs, written, heap, users, dictionaries_1, dictionaries_2>>

InitSingle ==
    /\ fs \in {f \in [Paths -> InitialSingleFiles] :
                   \A name \in FileNames : ~f[raw_data_absolute_path(name)].exists}
    /\ written = [name \in FileNames |-> NeverWritten]
    /\ heap = <<>>
    /\ users = <<>>
    /\ dictionaries_1 = <<>>
    /\ dictionaries_2 = <<>>
    /\ call = NoCall
    /\ result = Returned(NoValue)

NextSingle == WriteSingle \/ ReadSingle

SpecSingle == InitSingle /\ [][NextSingle]_vars

(***************************************************************************)
(* C2: the single-attribute round trip.                                    *)
(***************************************************************************)
NoWhitespace(text) == \A i \in DOMAIN text : text[i] \notin Whitespace

\* IDs and values "without whitespace", as the claim words it.
WhitespaceFree(attribute_for_user) ==
    \A id \in DOMAIN attribute_for_user :
        NoWhitespace(id) /\ NoWhitespace(str(attribute_for_user[id]))

\* ... and with at least one character in every ID and every string form.
NonEmptyTokens(attribute_for_user) ==
    \A id \in DOMAIN attribute_for_user :
        id # <<>> /\ str(attribute_for_user[id]) # <<>>

\* The last call read file `name`, whose last write was a write of a mapping.
ReadBackSingle(name) ==
    /\ call.op = "read_single"
    /\ call.file = name
    /\ written[name].op = "write_single"

\* What the round trip promises of the mapping M last written to `name`.
SingleRoundTrip(M, name) ==
    /\ result.err = "none"
    /\ DOMAIN result.val = DOMAIN M
    /\ \A id \in DOMAIN M : result.val[id] = str(M[id])
    /\ {id \o <<" ">> \o result.val[id] \o <<"\n">> : id \in DOMAIN result.val}
         = Range(FileLines(fs[processed_data_absolute_path(name)].text))

\* C2 (as stated): for any mapping M from string IDs to values, IDs and
\* values without whitespace, reading back the file M was written to gives
\* exactly M's IDs, each mapped to the string form of its value, and writing
\* the mapping read gives the same set of `ID value` lines.
C2_RoundTripAnyMapping ==
    \A name \in FileNames :
        (ReadBackSingle(name) /\ WhitespaceFree(written[name].arg))
            => SingleRoundTrip(written[name].arg, name)

\* C2 (amended): the same, for mappings whose IDs and whose values' string
\* forms are also non-empty.
C2_RoundTripNonEmptyTokens ==
    \A name \in FileNames :
        (ReadBackSingle(name) /\ WhitespaceFree(written[name].arg)
            /\ NonEmptyTokens(written[name].arg))
            => SingleRoundTrip(written[name].arg, name)

\* C2 (witness): a two-entry mapping holding the integers 12 and -3 was
\* written and read back as the strings "12" and "-3".
C2_Witness ==
    /\ ReadBackSingle("f")
    /\ written["f"].arg = (<<"u", "1">> :> IntV(12) @@ <<"u", "2">> :> IntV(-3))
    /\ result.err = "none"
    /\ result.val = (<<"u", "1">> :> <<"1", "2">> @@ <<"u", "2">> :> <<"-", "3">>)

(***************************************************************************)
(* Multi-attribute files.                                                  *)
(***************************************************************************)
\* The rows _write_multiple_user_attributes writes from record `i` on, after
\* `text`: [err, text].  A record without one of the attributes raises
\* KeyError, and the file keeps what was written before it.
RECURSIVE WriteRowsFrom(_, _, _, _)
WriteRowsFrom(records, i, attributes, text) ==
    IF i > Len(records) THEN [err |-> "none", text |-> text]
    ELSE IF \E k \in DOMAIN attributes : attributes[k] \notin DOMAIN records[i]
         THEN [err |-> "KeyError", text |-> text]
         ELSE WriteRowsFrom(records, i + 1, attributes,
                  text \o join(<<" ">>, [k \in DOMAIN attributes |-> str(records[i][attributes[k]])])
                       \o <<"\n">>)

write_multiple_user_attributes(records, attributes) ==
    WriteRowsFrom(records, 1, attributes, join(<<" ">>, attributes) \o <<"\n">>)

\* The dictionary _read_multiple_user_attributes builds from one row: the
\* desired attributes of the header, each with the token at its column (at
\* its last column, if the header repeats the name).
RowRecord(attributes_in_file, user_attribute_values, attributes_set) ==
    LET wanted == {i \in DOMAIN attributes_in_file : attributes_in_file[i] \in attributes_set}
        column(name) == CHOOSE i \in wanted :
                            /\ attributes_in_file[i] = name
                            /\ \A j \in wanted : attributes_in_file[j] = name => j <= i
    IN  [name \in {attributes_in_file[i] : i \in wanted} |-> user_attribute_values[column(name)]]

\* A read that checks every row against the header before using it.
RECURSIVE ReadRowsFromValidated(_, _, _, _, _)
ReadRowsFromValidated(lines, i, attributes_in_file, attributes_set, records) ==
    IF i > Len(lines) THEN Returned(records)
    ELSE LET user_attribute_values == split(lines[i])
         IN  IF Len(user_attribute_values) < Len(attributes_in_file)
             THEN Raised("IndexError")
             ELSE ReadRowsFromValidated(lines, i + 1, attributes_in_file, attributes_set,
                      Append(records,
                             RowRecord(attributes_in_file, user_attribute_values, attributes_set)))

\* The loop of _read_multiple_user_attributes over the lines from `i` on.
\* user_attribute_values[i] is evaluated for the desired columns only, and
\* raises IndexError when the row has no such token.
RECURSIVE ReadRowsFrom(_, _, _, _, _)
ReadRowsFrom(lines, i, attributes_in_file, attributes_set, records) ==
    IF i > Len(lines) THEN Returned(records)
    ELSE LET user_attribute_values == split(lines[i])
         IN  IF \E k \in DOMAIN attributes_in_file :
                    attributes_in_file[k] \in attributes_set /\ k > Len(user_attribute_values)
             THEN Raised("IndexError")
             ELSE ReadRowsFrom(lines, i + 1, attributes_in_file, attributes_set,
                      Append(records,
                             RowRecord(attributes_in_file, user_attribute_values, attributes_set)))

\* The file is opened under raw_data/ (line 133).
read_multiple_user_attributes(files, input_file_name, attributes) ==
    LET file == files[raw_data_absolute_path(input_file_name)]
        lines == FileLines(file.text)
        attributes_in_file == IF lines = <<>> THEN <<>> ELSE split(lines[1])
    IN  IF ~file.exists THEN Raised("IOError")
        ELSE ReadRowsFrom(lines, 2, attributes_in_file, Range(attributes), <<>>)

\* Inputs.
ID == <<"I", "D">>
Stars == <<"n">>
AttributeLists == {<<ID>>, <<ID, Stars>>, <<Stars, ID>>}
DesiredAttributeLists == AttributeLists \cup {<<Stars>>}
\* Two full records, one whose ID is the empty string, one without Stars.
MultiRecords ==
    {(ID :> StrV(<<"u", "1">>) @@ Stars :> IntV(12)),
     (ID :> StrV(<<"u", "2">>) @@ Stars :> IntV(-3)),
     (ID :> StrV(<<>>) @@ Stars :> IntV(12)),
     (ID :> StrV(<<"u", "1">>))}
MultiRecordLists == SeqUpTo(MultiRecords, MaxRows)
\* Files found in raw_data/ before any call: none, an empty one, a
\* well-formed table, a table whose only row is short, a table whose second
\* row is empty.
InitialRawFiles ==
    {NoFile,
     File(<<>>),
     File(<<"I", "D", " ", "n", "\n", "u", "1", " ", "1", "2", "\n">>),
     File(<<"I", "D", " ", "n", "\n", "u", "1", "\n">>),
     File(<<"I", "D", " ", "n", "\n", "u", "1", " ", "1", "2", "\n", "\n">>)}

WriteMultiple ==
    \E records \in MultiRecordLists, attributes \in AttributeLists, output_file_name \in FileNames :
        LET outcome == write_multiple_user_attributes(records, attributes)
        IN  /\ fs' = [fs EXCEPT ![processed_data_absolute_path(output_file_name)] =
                          File(outcome.text)]
            /\ written' = [written EXCEPT ![output_file_name] =
                          [op |-> "write_multi", arg |-> records,
                           attributes |-> attributes, ok |-> outcome.err = "none"]]
            /\ call' = [op |-> "write_multi", file |-> output_file_name,
                        attributes |-> attributes]
            /\ result' = IF outcome.err = "none" THEN Returned(NoValue) ELSE Raised(outcome.err)
            /\ UNCHANGED <<heap, users, dictionaries_1, dictionaries_2>>

ReadMultiple ==
    \E input_file_name \in FileNames, attributes \in DesiredAttributeLists :
        /\ call' = [op |-> "read_multi", file |-> input_file_name, attributes |-> attributes]
        /\ result' = read_multiple_user_attributes(fs, input_file_name, attributes)
        /\ UNCHANGED <<fs, written, heap, users, dictionaries_1, dictionaries_2>>

InitMulti ==
    /\ fs \in {f \in [Paths -> InitialRawFiles] :
                   \A name \in FileNames : ~f[processed_data_absolute_path(name)].exists}
    /\ written = [name \in FileNames |-> NeverWritten]
    /\ heap = <<>>
    /\ users = <<>>
    /\ dictionaries_1 = <<>>
    /\ dictionaries_2 = <<>>
    /\ call = NoCall
    /\ result = Returned(NoValue)

NextMulti == WriteMultiple \/ ReadMultiple

SpecMulti == InitMulti /\ [][NextMulti]_vars

(***************************************************************************)
(* C1: the multi-attribute round trip.                                     *)
(***************************************************************************)
\* The last call read file `name` with the attribute list of the last write
\* to `name`, a write of records that succeeded.
ReadBackMultiple(name) ==
    /\ call.op = "read_multi"
    /\ call.file = name
    /\ written[name].op = "write_multi"
    /\ written[name].ok
    /\ call.attributes = written[name].attributes

SharedKeySet(records, attributes) ==
    \A i \in DOMAIN records : DOMAIN records[i] = Range(attributes)

ValuesWhitespaceFree(records) ==
    \A i \in DOMAIN records : \A a \in DOMAIN records[i] : NoWhitespace(str(records[i][a]))

StringForms(records) ==
    [i \in DOMAIN records |-> [a \in DOMAIN records[i] |-> str(records[i][a])]]

\* C1 (as stated): for any list of records sharing the key set `attributes`
\* (values without whitespace) and any file name F, writing the records to F
\* and then reading F with the same attributes returns the original records,
\* in the same order, every field value as its string form.
C1_RoundTripMultiple ==
    \A name \in FileNames :
        (ReadBackMultiple(name)
            /\ SharedKeySet(written[name].arg, written[name].attributes)
            /\ ValuesWhitespaceFree(written[name].arg))
            => result = Returned(StringForms(written[name].arg))

(***************************************************************************)
(* C5: rows shorter than the header.                                       *)
(***************************************************************************)
\* The last call read file `name`, which exists where the read looks for it.
ReadExisting(name) ==
    /\ call.op = "read_multi"
    /\ call.file = name
    /\ fs[raw_data_absolute_path(name)].exists

\* Some data row has fewer tokens than the header row.
HasShortRow(text) ==
    LET lines == FileLines(text)
    IN  \E i \in 2..Len(lines) : Len(split(lines[i])) < Len(split(lines[1]))

\* Some data row lacks the token of a header column that is asked for.
LacksDesiredColumn(text, attributes) ==
    LET lines == FileLines(text)
    IN  \E i \in 2..Len(lines) : \E k \in 1..Len(split(lines[1])) :
            /\ split(lines[1])[k] \in Range(attributes)
            /\ k > Len(split(lines[i]))

\* C5 (as stated): the read fails for every file that holds a data row with
\* fewer tokens than the header, whatever attributes are asked for.
C5_ShortRowAlwaysFails ==
    \A name \in FileNames :
        (ReadExisting(name) /\ HasShortRow(fs[raw_data_absolute_path(name)].text))
            => result.err # "none"

\* C5 (amended): the read of an existing file fails, with IndexError,
\* exactly when some data row lacks the token of a header column that is
\* among the desired attributes; otherwise it returns one record per data
\* row, short rows included.
C5_FailsOnlyOnDesiredColumn ==
    \A name \in FileNames :
        ReadExisting(name) =>
            LET text == fs[raw_data_absolute_path(name)].text
            IN  IF LacksDesiredColumn(text, call.attributes)
                THEN result = Raised("IndexError")
                ELSE /\ result.err = "none"
                     /\ Len(result.val) = Len(FileLines(text)) - (IF text = <<>> THEN 0 ELSE 1)

\* C5 (witness): a file whose only data row lacks the second column was read
\* for the first column alone, and the read returned that row's record.
C5_Witness ==
    /\ ReadExisting("f")
    /\ HasShortRow(fs[raw_data_absolute_path("f")].text)
    /\ call.attributes = <<ID>>
    /\ result = Returned(<<(ID :> <<"u", "1">>)>>)

(***************************************************************************)
(* join_dictionaries.                                                      *)
(***************************************************************************)
\* dict(dictionary_1.items() + dictionary_2.items()): the later pair of a key
\* replaces the earlier one.
MergeFirstWins(dictionary_1, dictionary_2) ==
    [k \in DOMAIN dictionary_1 \cup DOMAIN dictionary_2 |->
        IF k \in DOMAIN dictionary_1 THEN dictionary_1[k] ELSE dictionary_2[k]]

Merge(dictionary_1, dictionary_2) ==
    [k \in DOMAIN dictionary_1 \cup DOMAIN dictionary_2 |->
        IF k \in DOMAIN dictionary_2 THEN dictionary_2[k] ELSE dictionary_1[k]]

LastWith(dictionaries, join_key, value) ==
    CHOOSE i \in DOMAIN dictionaries :
        /\ dictionaries[i][join_key] = value
        /\ \A j \in DOMAIN dictionaries : dictionaries[j][join_key] = value => j <= i

\* pairs_to_join after lines 28-31: per join_key value of dictionaries_1, the
\* last dictionary of dictionaries_1 with it and the last one of
\* dictionaries_2 with it, or None.  Every dictionary has the join_key here.
PairsToJoin(dicts_1, dicts_2, join_key) ==
    [value \in {dicts_1[i][join_key] : i \in DOMAIN dicts_1} |->
        [first  |-> dicts_1[LastWith(dicts_1, join_key, value)],
         found  |-> \E j \in DOMAIN dicts_2 : dicts_2[j][join_key] = value,
         second |-> IF \E j \in DOMAIN dicts_2 : dicts_2[j][join_key] = value
                    THEN dicts_2[LastWith(dicts_2, join_key, value)]
                    ELSE <<>>]]

\* A join that leaves out the dictionaries without a match.
JoinPairsSkipping(pairs_to_join, order) ==
    LET kept == SelectSeq(order, LAMBDA value : pairs_to_join[value].found)
    IN  Returned([i \in DOMAIN kept |->
            Merge(pairs_to_join[kept[i]].first, pairs_to_join[kept[i]].second)])

\* A join whose list keeps only the dictionary joined last.
JoinPairsKeepingLast(pairs_to_join, order) ==
    IF \E value \in DOMAIN pairs_to_join : ~pairs_to_join[value].found
    THEN Raised("AttributeError")
    ELSE Returned(IF order = <<>> THEN <<>>
                  ELSE <<Merge(pairs_to_join[order[Len(order)]].first,
                               pairs_to_join[order[Len(order)]].second)>>)

\* Lines 33-37: the pairs are joined in the order itervalues() hands them
\* out; None.items() raises AttributeError.
JoinPairs(pairs_to_join, order) ==
    IF \E value \in DOMAIN pairs_to_join : ~pairs_to_join[value].found
    THEN Raised("AttributeError")
    ELSE Returned([i \in DOMAIN order |->
            Merge(pairs_to_join[order[i]].first, pairs_to_join[order[i]].second)])

\* The order in which CPython 2 hands out the entries of a small dict keyed
\* by small integers: by slot of its eight-slot table, the slot of an integer
\* being its value modulo the table size (no two keys of the model collide).
Slot(value) == value % 8

DictOrder(keys) ==
    CHOOSE order \in Orderings(keys) :
        \A i, j \in DOMAIN order : i < j => Slot(order[i]) < Slot(order[j])

HaveKey(dictionaries, join_key) ==
    \A i \in DOMAIN dictionaries : join_key \in DOMAIN dictionaries[i]

\* The join_key values pairs_to_join is keyed by.
PairKeys(dicts_1, dicts_2, join_key) ==
    IF HaveKey(dicts_1, join_key) /\ HaveKey(dicts_2, join_key)
    THEN {dicts_1[i][join_key] : i \in DOMAIN dicts_1}
    ELSE {}

join_dictionaries(dicts_1, dicts_2, join_key, order) ==
    IF ~HaveKey(dicts_1, join_key) \/ ~HaveKey(dicts_2, join_key) THEN Raised("KeyError")
    ELSE JoinPairs(PairsToJoin(dicts_1, dicts_2, join_key), order)

\* Inputs.
JoinKeys == {"id", "x"}
JoinRecords1 ==
    {[id |-> 1, x |-> 10], [id |-> 2, x |-> 10], [id |-> 2, x |-> 11], [x |-> 10]}
JoinRecords2 ==
    {[id |-> 1, y |-> 20], [id |-> 2, y |-> 20], [id |-> 1, x |-> 12, y |-> 21],
     [x |-> 10, y |-> 22]}

Join ==
    /\ call.op = "none"
    /\ \E join_key \in JoinKeys :
            /\ call' = [op |-> "join", join_key |-> join_key]
            /\ result' = join_dictionaries(dictionaries_1, dictionaries_2, join_key,
                             DictOrder(PairKeys(dictionaries_1, dictionaries_2, join_key)))
    /\ UNCHANGED <<fs, written, heap, users, dictionaries_1, dictionaries_2>>

InitJoin ==
    /\ fs = <<>>
    /\ written = <<>>
    /\ heap = <<>>
    /\ users = <<>>
    /\ dictionaries_1 \in SeqUpTo(JoinRecords1, MaxJoin)
    /\ dictionaries_2 \in SeqUpTo(JoinRecords2, MaxJoin)
    /\ call = NoCall
    /\ result = Returned(NoValue)

NextJoin == Join

SpecJoin == InitJoin /\ [][NextJoin]_vars

(***************************************************************************)
(* C3, C4, C9: join_dictionaries.                                          *)
(***************************************************************************)
Joined == call.op = "join"

\* Every dictionary of both lists has the join_key, the join_key values of
\* dictionaries_1 are unique, and dictionaries_2 has a match for each.
UniqueAndMatched ==
    /\ Joined
    /\ HaveKey(dictionaries_1, call.join_key)
    /\ HaveKey(dictionaries_2, call.join_key)
    /\ \A i, j \in DOMAIN dictionaries_1 :
           dictionaries_1[i][call.join_key] = dictionaries_1[j][call.join_key] => i = j
    /\ \A i \in DOMAIN dictionaries_1 : \E j \in DOMAIN dictionaries_2 :
           dictionaries_2[j][call.join_key] = dictionaries_1[i][call.join_key]

\* C3 (as stated): for dictionaries_1 with unique join_key values and
\* dictionaries_2 holding a match for each, the i-th record of the result
\* carries the join_key value of the i-th record of dictionaries_1.
C3_ResultInFirstArgumentOrder ==
    UniqueAndMatched =>
        /\ result.err = "none"
        /\ Len(result.val) = Len(dictionaries_1)
        /\ \A i \in DOMAIN dictionaries_1 :
               result.val[i][call.join_key] = dictionaries_1[i][call.join_key]

\* C3 (amended): under the same conditions the join_key values of the result
\* are those of dictionaries_1 in some order: the result is as long as
\* dictionaries_1 and some one-to-one renumbering p gives record p[i] of the
\* result the join_key value of record i of dictionaries_1.
C3_ResultIsReorderingOfFirstArgument ==
    UniqueAndMatched =>
        /\ result.err = "none"
        /\ Len(result.val) = Len(dictionaries_1)
        /\ \E p \in [DOMAIN dictionaries_1 -> DOMAIN dictionaries_1] :
               /\ \A i, j \in DOMAIN dictionaries_1 : p[i] = p[j] => i = j
               /\ \A i \in DOMAIN dictionaries_1 :
                      result.val[p[i]][call.join_key] = dictionaries_1[i][call.join_key]

\* C3 (witness): records with ids 2 and 1, in this order, were joined and
\* came back with id 1 first.
C3_Witness ==
    /\ UniqueAndMatched
    /\ call.join_key = "id"
    /\ Len(dictionaries_1) = 2
    /\ dictionaries_1[1].id = 2
    /\ result.err = "none"
    /\ result.val[1].id = 1

\* C4: whenever some record of dictionaries_1 has a join_key value that no
\* record of dictionaries_2 has, the call raises and returns nothing.
C4_UnmatchedRecordRaises ==
    (/\ Joined
     /\ \E i \in DOMAIN dictionaries_1 :
            /\ call.join_key \in DOMAIN dictionaries_1[i]
            /\ \A j \in DOMAIN dictionaries_2 :
                   call.join_key \in DOMAIN dictionaries_2[j] =>
                       dictionaries_2[j][call.join_key] # dictionaries_1[i][call.join_key])
        => (result.err # "none" /\ result.val = NoValue)

\* C4 (witness): of two records of dictionaries_1 one had a match and the
\* other none, and the call raised AttributeError.
C4_Witness ==
    /\ Joined
    /\ call.join_key = "id"
    /\ dictionaries_1 = <<[id |-> 1, x |-> 10], [id |-> 2, x |-> 10]>>
    /\ dictionaries_2 = <<[id |-> 1, y |-> 20]>>
    /\ result = Raised("AttributeError")

\* C9: for dictionaries_1 with unique join_key values and dictionaries_2
\* holding a match for each, the result has exactly one record per record of
\* dictionaries_1, and that record has exactly the fields of the record and
\* of its match (the last one in dictionaries_2) with the match's value for
\* a field of both.
C9_OneMergedRecordPerRecord ==
    UniqueAndMatched =>
        /\ result.err = "none"
        /\ Len(result.val) = Len(dictionaries_1)
        /\ \A i \in DOMAIN dictionaries_1 :
             LET first == dictionaries_1[i]
                 match == dictionaries_2[LastWith(dictionaries_2, call.join_key,
                                                  first[call.join_key])]
                 hits  == {j \in DOMAIN result.val :
                              result.val[j][call.join_key] = first[call.join_key]}
             IN  /\ Cardinality(hits) = 1
                 /\ \A j \in hits :
                      /\ DOMAIN result.val[j] = DOMAIN first \cup DOMAIN match
                      /\ \A k \in DOMAIN match : result.val[j][k] = match[k]
                      /\ \A k \in DOMAIN first \ DOMAIN match : result.val[j][k] = first[k]

\* C9 (witness): [{id:1, x:10}] joined with a record that has another x gave
\* one record with the second record's x.
C9_Witness ==
    /\ UniqueAndMatched
    /\ call.join_key = "id"
    /\ dictionaries_1 = <<[id |-> 1, x |-> 10]>>
    /\ dictionaries_2 = <<[id |-> 1, x |-> 12, y |-> 21]>>
    /\ result = Returned(<<[id |-> 1, x |-> 12, y |-> 21]>>)

\* C9 (the spec's example): [{id:1, x:10}] joined with [{id:1, y:20}] on id
\* gives [{id:1, x:10, y:20}].
JoinExample ==
    (/\ Joined
     /\ call.join_key = "id"
     /\ dictionaries_1 = <<[id |-> 1, x |-> 10]>>
     /\ dictionaries_2 = <<[id |-> 1, y |-> 20]>>)
        => result = Returned(<<[id |-> 1, x |-> 10, y |-> 20]>>)

(***************************************************************************)
(* Numbers of the transformation layer: exact fractions <<numerator,       *)
(* denominator>> in lowest terms with a positive denominator; the integer  *)
(* k is <<k, 1>>.                                                          *)
(***************************************************************************)
Number(k) == <<k, 1>>

Abs(k) == IF k < 0 THEN -k ELSE k

RECURSIVE Gcd(_, _)
Gcd(a, b) == IF b = 0 THEN a ELSE Gcd(b, a % b)

\* numerator / denominator, for a denominator other than 0.
Fraction(numerator, denominator) ==
    LET g == Gcd(Abs(numerator), Abs(denominator))
        sign == IF denominator < 0 THEN -1 ELSE 1
    IN  <<(sign * numerator) \div g, (sign * denominator) \div g>>

Minus(a, b) == Fraction(a[1] * b[2] - b[1] * a[2], a[2] * b[2])
Less(a, b) == a[1] * b[2] < b[1] * a[2]
IsZero(a) == a[1] = 0

\* max() and min() of a non-empty set of numbers.
Maximum(values) == CHOOSE v \in values : \A w \in values : ~Less(v, w)
Minimum(values) == CHOOSE v \in values : \A w \in values : ~Less(w, v)

(***************************************************************************)
(* make_attribute_boolean.                                                 *)
(***************************************************************************)
\* A test that takes 0 for positive.
BooleanOfNonNegative(value) == IF ~Less(value, Number(0)) THEN Number(1) ELSE Number(0)

\* 1 if user[attribute] > 0 else 0
BooleanOf(value) == IF Less(Number(0), value) THEN Number(1) ELSE Number(0)

\* user_copy of lines 50-51.
BooleanCopy(user, attribute) ==
    [key \in DOMAIN user \cup {attribute} |->
        IF key = attribute THEN BooleanOf(user[attribute]) ELSE user[key]]

\* The heap and the list after the call: one new object per entry of the
\* list, allocated after the objects there are.
make_attribute_boolean(objects, list, attribute) ==
    IF \E i \in DOMAIN list : attribute \notin DOMAIN objects[list[i]]
    THEN [heap |-> objects, result |-> Raised("KeyError")]
    ELSE [heap |-> objects \o [i \in DOMAIN list |-> BooleanCopy(objects[list[i]], attribute)],
          result |-> Returned([i \in DOMAIN list |-> Len(objects) + i])]

(***************************************************************************)
(* stratified_boolean_sample.                                              *)
(***************************************************************************)
\* The positions random.sample may draw: k different ones, in any order.
Draws(n, k) == {p \in [1..k -> 1..n] : \A i, j \in 1..k : i # j => p[i] # p[j]}

\* Draws with replacement.
DrawsRepeating(n, k) == [1..k -> 1..n]

\* The outcomes of random.sample(population, k), for k <= len(population).
RandomSampleRepeating(population, k) ==
    {[i \in 1..k |-> population[p[i]]] : p \in DrawsRepeating(Len(population), k)}

RandomSample(population, k) ==
    {[i \in 1..k |-> population[p[i]]] : p \in Draws(Len(population), k)}

\* The outcomes of the call (lines 75-78).
stratified_boolean_sample(objects, list, label_name) ==
    IF \E i \in DOMAIN list : label_name \notin DOMAIN objects[list[i]]
    THEN {Raised("KeyError")}
    ELSE LET positive_samples == SelectSeq(list, LAMBDA user : objects[user][label_name] = Number(1))
             negative_samples == SelectSeq(list, LAMBDA user : objects[user][label_name] = Number(0))
         IN  IF Len(positive_samples) < Len(negative_samples)
             THEN {Returned(<<positive_samples, sampled>>) :
                      sampled \in RandomSample(negative_samples, Len(positive_samples))}
             ELSE {Returned(<<sampled, negative_samples>>) :
                      sampled \in RandomSample(positive_samples, Len(negative_samples))}

(***************************************************************************)
(* normalize_users.                                                        *)
(***************************************************************************)
\* A division that answers 0 for a zero divisor, as safe_divide does.
NormalizedValueOrZero(value, lo, hi) ==
    IF IsZero(Minus(hi, lo)) THEN Returned(Number(0))
    ELSE Returned(Fraction(Minus(value, lo)[1] * Minus(hi, lo)[2],
                           Minus(value, lo)[2] * Minus(hi, lo)[1]))

\* A normalisation that forgets to subtract the minimum from the value.
NormalizedValueUnshifted(value, lo, hi) ==
    IF IsZero(Minus(hi, lo)) THEN Raised("ZeroDivisionError")
    ELSE Returned(Fraction(value[1] * Minus(hi, lo)[2], value[2] * Minus(hi, lo)[1]))

\* float(value - min) / (max - min), line 115.
NormalizedValue(value, lo, hi) ==
    IF IsZero(Minus(hi, lo)) THEN Raised("ZeroDivisionError")
    ELSE Returned(Fraction(Minus(value, lo)[1] * Minus(hi, lo)[2],
                           Minus(value, lo)[2] * Minus(hi, lo)[1]))

\* The values attribute `attribute` has in the objects of the list.
ValuesOf(objects, list, attribute) ==
    {objects[list[i]][attribute] :
        i \in {j \in DOMAIN list : attribute \in DOMAIN objects[list[j]]}}

\* The assignments of the second loop in the order they are made: object by
\* object of the list, and per object its attributes in the order
\* iteritems() hands them out, the excluded ones left out.
RECURSIVE Visits(_, _, _, _, _)
Visits(objects, list, i, order, excluded) ==
    IF i > Len(list) THEN <<>>
    ELSE LET attributes == SelectSeq(order, LAMBDA attribute :
                               attribute \in DOMAIN objects[list[i]] /\ attribute \notin excluded)
         IN  [k \in DOMAIN attributes |-> <<list[i], attributes[k]>>]
                 \o Visits(objects, list, i + 1, order, excluded)

\* The second loop (lines 112-115) from assignment `k` on: each value is read
\* from the object as it is then, and replaced in place.
RECURSIVE NormalizeFrom(_, _, _, _, _)
NormalizeFrom(objects, visits, k, min_user, max_user) ==
    IF k > Len(visits) THEN [heap |-> objects, err |-> "none"]
    ELSE LET user == visits[k][1]
             attribute == visits[k][2]
             outcome == NormalizedValue(objects[user][attribute],
                                        min_user[attribute], max_user[attribute])
         IN  IF outcome.err # "none" THEN [heap |-> objects, err |-> outcome.err]
             ELSE NormalizeFrom([objects EXCEPT ![user][attribute] = outcome.val],
                                visits, k + 1, min_user, max_user)

\* The heap and the result after the call.  users[0] of an empty list raises
\* IndexError; max_user[attribute] of an attribute users[0] does not have
\* raises KeyError (line 108).
normalize_users(objects, list, excluded_attributes, order) ==
    IF list = <<>> THEN [heap |-> objects, result |-> Raised("IndexError")]
    ELSE IF \E i \in DOMAIN list : \E attribute \in DOMAIN objects[list[i]] :
                attribute \notin excluded_attributes /\ attribute \notin DOMAIN objects[list[1]]
    THEN [heap |-> objects, result |-> Raised("KeyError")]
    ELSE LET normalized == DOMAIN objects[list[1]] \ excluded_attributes
             max_user == [attribute \in normalized |-> Maximum(ValuesOf(objects, list, attribute))]
             min_user == [attribute \in normalized |-> Minimum(ValuesOf(objects, list, attribute))]
             outcome == NormalizeFrom(objects, Visits(objects, list, 1, order, excluded_attributes),
                                      1, min_user, max_user)
         IN  [heap |-> outcome.heap,
              result |-> IF outcome.err = "none" THEN Returned(list) ELSE Raised(outcome.err)]

(***************************************************************************)
(* The transformations, applied to a list of objects.                      *)
(***************************************************************************)
AttributeNames == {"score", "label"}
UserRecords ==
    {[score |-> Number(-3), label |-> Number(0)],
     [score |-> Number(0), label |-> Number(1)],
     [score |-> Number(5), label |-> Number(0)],
     [score |-> Number(5), label |-> Number(1)],
     [score |-> Number(10), label |-> Number(1)],
     [score |-> Number(10), label |-> Number(2)],
     [score |-> Number(5)]}

\* The lists over the objects 1..n, each object in the list, objects numbered
\* in the order the list first names them; a list may name an object twice.
UserLists(n, longest) ==
    {list \in SeqUpTo(1..n, longest) :
        /\ Range(list) = 1..n
        /\ \A i \in DOMAIN list : list[i] = 1 \/ \E j \in 1..(i - 1) : list[i] <= list[j] + 1}

MakeBoolean ==
    /\ call.op = "none"
    /\ \E attribute \in AttributeNames :
         LET outcome == make_attribute_boolean(heap, users, attribute)
         IN  /\ call' = [op |-> "make_attribute_boolean", attribute |-> attribute, pre |-> heap]
             /\ heap' = outcome.heap
             /\ result' = outcome.result
    /\ UNCHANGED <<fs, written, users, dictionaries_1, dictionaries_2>>

SampleRecords ==
    {[score |-> Number(5), label |-> Number(0)],
     [score |-> Number(5), label |-> Number(1)],
     [score |-> Number(5), label |-> Number(2)],
     [score |-> Number(5)]}

Sample ==
    /\ call.op = "none"
    /\ \E label_name \in AttributeNames :
         \E outcome \in stratified_boolean_sample(heap, users, label_name) :
             /\ call' = [op |-> "stratified_boolean_sample", label_name |-> label_name,
                         pre |-> heap]
             /\ result' = outcome
    /\ UNCHANGED <<fs, written, heap, users, dictionaries_1, dictionaries_2>>

Normalize ==
    /\ call.op = "none"
    /\ \E excluded_attributes \in SUBSET AttributeNames, order \in Orderings(AttributeNames) :
         LET outcome == normalize_users(heap, users, excluded_attributes, order)
         IN  /\ call' = [op |-> "normalize_users", excluded_attributes |-> excluded_attributes,
                         pre |-> heap]
             /\ heap' = outcome.heap
             /\ result' = outcome.result
    /\ UNCHANGED <<fs, written, users, dictionaries_1, dictionaries_2>>

InitUsers ==
    /\ fs = <<>>
    /\ written = <<>>
    /\ \E n \in 0..MaxUsers :
         /\ heap \in [1..n -> UserRecords]
         /\ users \in UserLists(n, MaxUsers)
    /\ dictionaries_1 = <<>>
    /\ dictionaries_2 = <<>>
    /\ call = NoCall
    /\ result = Returned(NoValue)

NextUsers == MakeBoolean \/ Normalize

SpecUsers == InitUsers /\ [][NextUsers]_vars

InitSample ==
    /\ fs = <<>>
    /\ written = <<>>
    /\ \E n \in 0..MaxSampled :
         /\ heap \in [1..n -> SampleRecords]
         /\ users \in UserLists(n, MaxSampled)
    /\ dictionaries_1 = <<>>
    /\ dictionaries_2 = <<>>
    /\ call = NoCall
    /\ result = Returned(NoValue)

NextSample == Sample

SpecSample == InitSample /\ [][NextSample]_vars

(***************************************************************************)
(* C6: stratified_boolean_sample.                                          *)
(***************************************************************************)
Sampled == call.op = "stratified_boolean_sample"

\* How often `x` occurs in the sequence.
Occurrences(sequence, x) == Cardinality({i \in DOMAIN sequence : sequence[i] = x})

\* The number of entries of the list whose label is `value`.
Labelled(value) ==
    Cardinality({i \in DOMAIN users : heap[users[i]][call.label_name] = Number(value)})

Smaller(a, b) == IF a < b THEN a ELSE b

\* C6: when every record has the label the call returns two lists of
\* min(P, N) records each, P and N being the numbers of entries with label 1
\* and 0; the first holds only label-1 records, the second only label-0
\* records, all from the input, none more often than the input holds it.
C6_BalancedSampleWithoutReplacement ==
    (Sampled /\ \A i \in DOMAIN users : call.label_name \in DOMAIN heap[users[i]]) =>
        /\ result.err = "none"
        /\ Len(result.val[1]) = Smaller(Labelled(1), Labelled(0))
        /\ Len(result.val[2]) = Smaller(Labelled(1), Labelled(0))
        /\ \A i \in DOMAIN result.val[1] : heap[result.val[1][i]][call.label_name] = Number(1)
        /\ \A i \in DOMAIN result.val[2] : heap[result.val[2][i]][call.label_name] = Number(0)
        /\ \A user \in Range(result.val[1]) \cup Range(result.val[2]) :
               /\ user \in Range(users)
               /\ Occurrences(result.val[1] \o result.val[2], user) <= Occurrences(users, user)

\* C6 (witness): of two label-1 and two label-0 records the call returned
\* both label-0 records and the two label-1 records in the other order.
C6_Witness ==
    /\ Sampled
    /\ call.label_name = "label"
    /\ users = <<1, 2, 3, 4>>
    /\ \A i \in DOMAIN users : "label" \in DOMAIN heap[users[i]]
    /\ Labelled(1) = 2
    /\ Labelled(0) = 2
    /\ result.err = "none"
    /\ heap[1].label = Number(1)
    /\ heap[2].label = Number(1)
    /\ result.val = <<(<<2, 1>>), (<<3, 4>>)>>

(***************************************************************************)
(* C7, C8: normalize_users.                                                *)
(***************************************************************************)
Normalized == call.op = "normalize_users"

\* The record the i-th entry of the list named when the call was made.
Original(i) == call.pre[users[i]]

SameKeySets == \A i \in DOMAIN users : DOMAIN Original(i) = DOMAIN Original(1)

\* Every record has the attribute, with one and the same value.
Constant(attribute) ==
    \A i \in DOMAIN users :
        /\ attribute \in DOMAIN Original(i)
        /\ attribute \in DOMAIN Original(1)
        /\ Original(i)[attribute] = Original(1)[attribute]

\* C7: a call on a collection in which some attribute that is not excluded
\* has the same value in every record (a single record included) does not
\* return: it raises, and a division-by-zero error when the records share
\* their key set; and a call that returns leaves no value without a proper
\* (non-zero) denominator.
C7_ConstantAttributeRaises ==
    Normalized =>
        /\ (users # <<>> /\ \E attribute \in AttributeNames \ call.excluded_attributes :
                                Constant(attribute))
              => /\ result.err # "none"
                 /\ result.val = NoValue
                 /\ SameKeySets => result = Raised("ZeroDivisionError")
        /\ result.err = "none" =>
              \A i \in DOMAIN users : \A attribute \in DOMAIN heap[users[i]] :
                  heap[users[i]][attribute][2] > 0

\* C7 (witness): two records that share the score 5 and differ in the label
\* were normalized with nothing excluded, and the call raised.
C7_Witness ==
    /\ Normalized
    /\ call.excluded_attributes = {}
    /\ users = <<1, 2>>
    /\ call.pre = <<[score |-> Number(5), label |-> Number(0)],
                    [score |-> Number(5), label |-> Number(1)]>>
    /\ result = Raised("ZeroDivisionError")

\* The least and the greatest of the values the attribute had in the
\* collection when the call was made (all of them integers).
Least(attribute) ==
    CHOOSE v \in {Original(i)[attribute][1] : i \in DOMAIN users} :
        \A i \in DOMAIN users : v <= Original(i)[attribute][1]
Greatest(attribute) ==
    CHOOSE v \in {Original(i)[attribute][1] : i \in DOMAIN users} :
        \A i \in DOMAIN users : v >= Original(i)[attribute][1]

\* Distinct objects with one key set, and max > min for every attribute that
\* is not excluded.
Normalizable ==
    /\ Normalized
    /\ users # <<>>
    /\ \A i, j \in DOMAIN users : users[i] = users[j] => i = j
    /\ SameKeySets
    /\ \A attribute \in DOMAIN Original(1) \ call.excluded_attributes :
           Least(attribute) < Greatest(attribute)

\* C8: under these conditions the call returns the list, every value v that
\* is not excluded has become (v - min) / (max - min), min and max taken over
\* the collection as it was, a value between 0 and 1, and every excluded
\* value is what it was.
C8_MinMaxNormalization ==
    Normalizable =>
        /\ result = Returned(users)
        /\ \A i \in DOMAIN users :
             /\ DOMAIN heap[users[i]] = DOMAIN Original(i)
             /\ \A attribute \in DOMAIN Original(i) :
                  LET old == Original(i)[attribute]
                      new == heap[users[i]][attribute]
                  IN  IF attribute \in call.excluded_attributes THEN new = old
                      ELSE /\ new[2] > 0
                           /\ new[1] * (Greatest(attribute) - Least(attribute))
                                = (old[1] - Least(attribute)) * new[2]
                           /\ 0 <= new[1]
                           /\ new[1] <= new[2]

\* C8 (witness): the scores 0, 5, 10 became 0, 1/2, 1 and the excluded
\* labels stayed.
C8_Witness ==
    /\ Normalizable
    /\ call.excluded_attributes = {"label"}
    /\ users = <<1, 2, 3>>
    /\ call.pre = <<[score |-> Number(0), label |-> Number(1)],
                    [score |-> Number(5), label |-> Number(0)],
                    [score |-> Number(10), label |-> Number(1)]>>
    /\ heap = <<[score |-> <<0, 1>>, label |-> Number(1)],
                [score |-> <<1, 2>>, label |-> Number(0)],
                [score |-> <<1, 1>>, label |-> Number(1)]>>

(***************************************************************************)
(* C10: make_attribute_boolean.                                            *)
(***************************************************************************)
MadeBoolean == call.op = "make_attribute_boolean"

\* C10: when every record has the attribute the call returns a list of new
\* objects, as long as the input and in its order, each with the fields of
\* its original, the attribute 1 where the original's is strictly positive
\* and 0 otherwise, every other field equal; and the input objects are what
\* they were.
C10_BooleanCopies ==
    (MadeBoolean /\ \A i \in DOMAIN users : call.attribute \in DOMAIN Original(i)) =>
        /\ result.err = "none"
        /\ Len(result.val) = Len(users)
        /\ \A i \in DOMAIN users :
             LET copy == heap[result.val[i]]
             IN  /\ result.val[i] \notin DOMAIN call.pre
                 /\ DOMAIN copy = DOMAIN Original(i)
                 /\ copy[call.attribute] =
                        (IF Original(i)[call.attribute][1] > 0 THEN <<1, 1>> ELSE <<0, 1>>)
                 /\ \A key \in DOMAIN copy \ {call.attribute} : copy[key] = Original(i)[key]
        /\ \A user \in DOMAIN call.pre : heap[user] = call.pre[user]

\* C10 (witness): records with the scores -3, 0 and 5 were copied with the
\* scores 0, 0 and 1, and the originals kept theirs.
C10_Witness ==
    /\ MadeBoolean
    /\ call.attribute = "score"
    /\ users = <<1, 2, 3>>
    /\ call.pre = <<[score |-> Number(-3), label |-> Number(0)],
                    [score |-> Number(0), label |-> Number(1)],
                    [score |-> Number(5), label |-> Number(0)]>>
    /\ result = Returned(<<4, 5, 6>>)
    /\ heap = call.pre \o <<[score |-> Number(0), label |-> Number(0)],
                            [score |-> Number(0), label |-> Number(1)],
                            [score |-> Number(1), label |-> Number(0)]>>

====
